---- MODULE Spec2Model ----
(***************************************************************************)
(* Model of the update scheduling and execution engine of                  *)
(* Sitelutions-DDNS-Client/ddns_updater.py (class DDNSUpdaterApp).         *)
(*                                                                         *)
(* Two threads exist in the program:                                       *)
(*   - the Tk main thread, which runs root.mainloop() and executes every   *)
(*     button command and every root.after callback, one at a time, to     *)
(*     completion (the network calls of perform_update block it);          *)
(*   - the tray thread (threading.Thread(target=setup_tray_icon)), which   *)
(*     runs the pystray menu and so executes exit_app, and through it      *)
(*     stop_auto_update, concurrently with the main thread.                *)
(* Plain attribute accesses of the tray thread (is_running, after_id)      *)
(* interleave with the main thread at any point; its Tk calls              *)
(* (after_cancel, widget.config, log insert) are handed to the thread      *)
(* that owns the interpreter and run when the main loop dispatches them,   *)
(* that is between two callbacks.                                          *)
(***************************************************************************)
EXTENDS Integers, Sequences, FiniteSets, TLC

\* ---------------------------------------------------------------- bounds
MaxTimerIds == 2   \* timer ids that can be referred to at one time
MaxQueue == 1      \* button clicks waiting in the Tk event queue
MaxRuns == 2       \* calls of perform_update in a sequence of SpecExecute

\* ------------------------------------------------------ program constants
None == 0          \* self.after_id = None

IntervalValues == {"60 minutes", "4 hours", "6 hours", "24 hours"}

interval_map ==
    [v \in IntervalValues |->
        CASE v = "60 minutes" -> 3600000
          [] v = "4 hours"    -> 14400000
          [] v = "6 hours"    -> 21600000
          [] v = "24 hours"   -> 86400000]

\* A map that knows no interval
get_interval_ms_Zero(v) == 0

\* A map that gives the durations in seconds
get_interval_ms_Seconds(v) ==
    IF v \in DOMAIN interval_map THEN interval_map[v] \div 1000 ELSE 0

\* get_interval_ms, applied to the value of interval_var
get_interval_ms(v) == IF v \in DOMAIN interval_map THEN interval_map[v] ELSE 0

\* The widgets set_controls_state configures, in the order it configures
\* them. The three credential entries are left out: their text is read by
\* perform_update whatever their state, so their state decides nothing.
Controls == <<"start_button", "stop_button", "manual_button", "interval_combo">>

ControlNames == {Controls[i] : i \in 1..Len(Controls)}

\* set_controls_state("running")
RunningControls ==
    [w \in ControlNames |-> IF w = "stop_button" THEN "normal" ELSE "disabled"]

\* set_controls_state("stopped")
StoppedControls ==
    [w \in ControlNames |->
        CASE w = "stop_button"    -> "disabled"
          [] w = "interval_combo" -> "readonly"
          [] OTHER                -> "normal"]

set_controls_state(state) ==
    IF state = "running" THEN RunningControls ELSE StoppedControls

\* The command bound to each button in create_widgets
Buttons == {"start_button", "stop_button", "manual_button"}

ButtonCommand(b) ==
    CASE b = "start_button"  -> "start_auto_update"
      [] b = "stop_button"   -> "stop_auto_update"
      [] b = "manual_button" -> "perform_update"

\* ------------------------------------------------------------ text values
Whitespace == {" ", "\n"}

RECURSIVE LStrip(_)
LStrip(s) == IF s # <<>> /\ Head(s) \in Whitespace THEN LStrip(Tail(s)) ELSE s

RECURSIVE RStrip(_)
RStrip(s) ==
    IF s # <<>> /\ s[Len(s)] \in Whitespace
    THEN RStrip(SubSeq(s, 1, Len(s) - 1))
    ELSE s

\* str.strip()
Strip(s) == RStrip(LStrip(s))

\* Text of a credential entry: empty or not
FieldValues == {"", "x"}

\* What lines 126-128 can read from id_entry, email_entry and apikey_entry:
\* anything the settings file held or the user typed. Each call of
\* perform_update reads the entries anew.
CredentialValues == [record_id : FieldValues, email : FieldValues, api_key : FieldValues]

\* What requests.get can do: raise RequestException (connection error or
\* timeout), or return a response with a status and a body.
TransportError == [raised |-> TRUE, status |-> 0, text |-> <<>>]

IpBodies == {<<"7">>, <<" ", "7", "\n">>}
ErrorBodies == {<<"E">>}

ResolverOutcomes ==
    {TransportError}
        \cup [raised : {FALSE}, status : {200}, text : IpBodies]
        \cup [raised : {FALSE}, status : {503}, text : ErrorBodies]

UpdaterBodies == {<<"o", "k", "\n">>}

UpdaterOutcomes ==
    {TransportError}
        \cup [raised : {FALSE}, status : {200, 500}, text : UpdaterBodies]

\* response.raise_for_status(): HTTPError for 4xx and 5xx
raise_for_status(resp) == resp.status >= 400

\* ------------------------------------------------------------------ state
VARIABLES
    is_running,     \* self.is_running
    after_id,       \* self.after_id: None or the id root.after returned
    interval_var,   \* self.interval_var (StringVar of the readonly combobox)
    widget_state,   \* state option of each widget of Controls
    timers,         \* Tk's pending after-timers: the ids root.after returned
    evq,            \* buttons whose click waits in the Tk event queue
    stack,          \* callbacks the main thread is executing, innermost last
    tray,           \* position of the tray thread in exit_app
    quit            \* root.quit() was called: the main loop ends

vars == <<is_running, after_id, interval_var, widget_state, timers, evq,
          stack, tray, quit>>

\* A callback the main thread executes: the command or timer callback Tk
\* invoked (entry), the position in it (pc) and the locals of the calls.
NewFrame(entry, pc) ==
    [entry |-> entry, pc |-> pc,
     resolve_status |-> 0, public_ip |-> <<>>, sent_ip |-> <<>>,
     resolver_calls |-> 0, updater_calls |-> 0, update_status |-> 0,
     op_log |-> <<>>,
     result |-> "None", response_text |-> <<>>, interval_ms |-> 0,
     new_id |-> None, calls |-> 0,
     creds |-> [record_id |-> "", email |-> "", api_key |-> ""]]

Top == stack[Len(stack)]

SetTop(f) == [stack EXCEPT ![Len(stack)] = f]

Pop == SubSeq(stack, 1, Len(stack) - 1)

\* Positions inside perform_update
PerformPcs == {"perform_126", "perform_137", "perform_148", "perform_return"}

\* Update Operations in flight: calls of perform_update that have not returned
InFlight(st) == Cardinality({i \in 1..Len(st) : st[i].pc \in PerformPcs})

\* A main loop that a running callback re-enters (as update() would do)
CanDispatch_Reentrant(st) == Len(st) < 2

\* root.mainloop() takes the next event only when no callback is executing:
\* no callback of the program re-enters the event loop (no update(), no
\* wait_window, no nested mainloop).
CanDispatch(st) == st = <<>>

Init ==
    /\ is_running = FALSE
    /\ after_id = None
    \* load_settings: the stored interval, only if it is an enumerated one
    /\ interval_var \in IntervalValues \cup {""}
    \* create_widgets
    /\ widget_state = [w \in ControlNames |->
                         CASE w = "stop_button"    -> "disabled"
                           [] w = "interval_combo" -> "readonly"
                           [] OTHER                -> "normal"]
    /\ timers = {}
    /\ evq = <<>>
    /\ stack = <<>>
    /\ tray = [pc |-> "menu", arg |-> None, widget |-> 0, stopped |-> FALSE]
    /\ quit = FALSE

\* ------------------------------------------------------------ user input
\* The user presses one of the three buttons while an Update Operation is
\* blocking the main thread: Tk queues the event and the main loop handles
\* it when it next dispatches. (A click that arrives during a callback that
\* makes no network call is handled right after that callback, exactly as
\* a click of ClickIdle made at that moment.)
ClickBusy(b) ==
    /\ ~quit
    /\ InFlight(stack) > 0
    /\ Len(evq) < MaxQueue
    /\ evq' = Append(evq, b)
    /\ UNCHANGED <<is_running, after_id, interval_var, widget_state, timers,
                   stack, tray, quit>>

\* The user picks a value of the readonly combobox: only its listed values
SelectInterval ==
    /\ ~quit
    /\ CanDispatch(stack)
    /\ widget_state["interval_combo"] = "readonly"
    /\ \E v \in IntervalValues \ {interval_var} : interval_var' = v
    /\ UNCHANGED <<is_running, after_id, widget_state, timers, evq, stack,
                   tray, quit>>

\* ------------------------------------------------------- main loop dispatch
\* A manual button wired to the command of the Start button
EntryPc_ManualStarts(cmd) ==
    CASE cmd = "start_auto_update" -> "start_183"
      [] cmd = "stop_auto_update"  -> "stop_193"
      [] cmd = "perform_update"    -> "start_183"
      [] cmd = "auto_update_loop"  -> "perform_126"

\* First position of the command of a button
EntryPc(cmd) ==
    CASE cmd = "start_auto_update" -> "start_183"
      [] cmd = "stop_auto_update"  -> "stop_193"
      [] cmd = "perform_update"    -> "perform_126"
      [] cmd = "auto_update_loop"  -> "perform_126"

\* A ttk button invokes its command only if it is not disabled when the
\* click is handled.
ButtonEnabled(b) == widget_state[b] # "disabled"

\* The main loop handles a click on button b
HandleClick(b) ==
    LET cmd == ButtonCommand(b)
    IN  stack' = IF ButtonEnabled(b)
                 THEN Append(stack, NewFrame(cmd, EntryPc(cmd)))
                 ELSE stack

\* The user presses a button while the main loop is waiting for events
ClickIdle(b) ==
    /\ ~quit
    /\ CanDispatch(stack)
    /\ evq = <<>>
    /\ HandleClick(b)
    /\ UNCHANGED <<is_running, after_id, interval_var, widget_state, timers,
                   evq, tray, quit>>

\* The main loop handles the oldest queued click
DispatchClick ==
    /\ ~quit
    /\ CanDispatch(stack)
    /\ evq # <<>>
    /\ evq' = Tail(evq)
    /\ HandleClick(Head(evq))
    /\ UNCHANGED <<is_running, after_id, interval_var, widget_state, timers,
                   tray, quit>>

\* A pending timer of root.after expires: Tk removes it and calls
\* auto_update_loop
TimerFire ==
    /\ ~quit
    /\ CanDispatch(stack)
    /\ \E t \in timers :
          /\ timers' = timers \ {t}
          /\ stack' = Append(stack, NewFrame("auto_update_loop",
                                             EntryPc("auto_update_loop")))
    /\ UNCHANGED <<is_running, after_id, interval_var, widget_state, evq,
                   tray, quit>>

\* ------------------------------------------------------ start_auto_update
\* A Start that does not look at the interval
IntervalSelected_Always(v) == TRUE

\* Line 183: self.interval_var.get() is truthy
IntervalSelected(v) == v # ""

\* Lines 183 and 186: reject an empty interval, else set is_running
Start_183 ==
    /\ stack # <<>>
    /\ Top.pc = "start_183"
    /\ IF ~IntervalSelected(interval_var)
       THEN /\ stack' = SetTop([Top EXCEPT !.pc = "start_184"])
            /\ UNCHANGED is_running
       ELSE /\ is_running' = TRUE
            /\ stack' = SetTop([Top EXCEPT !.pc = "start_187"])
    /\ UNCHANGED <<after_id, interval_var, widget_state, timers, evq, tray,
                   quit>>

\* Lines 184-185: log the error and return
Start_184 ==
    /\ stack # <<>>
    /\ Top.pc = "start_184"
    /\ stack' = Pop
    /\ UNCHANGED <<is_running, after_id, interval_var, widget_state, timers,
                   evq, tray, quit>>

\* Lines 187-190: disable the controls, save the settings, log, and call
\* auto_update_loop, which calls perform_update
Start_187 ==
    /\ stack # <<>>
    /\ Top.pc = "start_187"
    /\ widget_state' = set_controls_state("running")
    /\ stack' = SetTop([Top EXCEPT !.pc = EntryPc("auto_update_loop")])
    /\ UNCHANGED <<is_running, after_id, interval_var, timers, evq, tray,
                   quit>>

\* --------------------------------------------------------- perform_update
\* A log call that writes nothing
LogOp_Silent(f, msg) == f

\* self.log_message(msg): the line is appended to the log
LogOp(f, msg) == [f EXCEPT !.op_log = Append(@, msg)]

\* perform_update reaches a return with this outcome
Finish(f, result) == [f EXCEPT !.result = result, !.pc = "perform_return"]

\* A credential check that passes as soon as one field is filled
CredentialsComplete_Any(c) == c.record_id # "" \/ c.email # "" \/ c.api_key # ""

\* all([record_id, email, api_key]) of line 130
CredentialsComplete(c) == c.record_id # "" /\ c.email # "" /\ c.api_key # ""

\* Lines 126-135: read the three entries, check them, log the first line
Perform_126 ==
    /\ stack # <<>>
    /\ Top.pc = "perform_126"
    /\ \E c \in CredentialValues :
          LET f == [Top EXCEPT !.calls = @ + 1, !.creds = c]
          IN  stack' = IF ~CredentialsComplete(c)
                       THEN SetTop(Finish(LogOp(f, "ERROR: fields are required"),
                                          "MissingCredentials"))
                       ELSE SetTop([LogOp(f, "Fetching public IP address")
                                       EXCEPT !.pc = "perform_137"])
    /\ UNCHANGED <<is_running, after_id, interval_var, widget_state, timers,
                   evq, tray, quit>>

\* A resolver failure that does not end the operation
ResolveFailed_Never(resp) == FALSE

\* The resolver call of line 137: the body of any response is the IP; only
\* an exception of requests.get is a failure
ResolveFailed(resp) == resp.raised

\* Lines 136-145: resolve the public IP
Perform_137 ==
    /\ stack # <<>>
    /\ Top.pc = "perform_137"
    /\ \E resp \in ResolverOutcomes :
          LET f == [Top EXCEPT !.resolver_calls = @ + 1,
                               !.resolve_status = resp.status]
          IN  stack' =
                IF ResolveFailed(resp)
                THEN SetTop(Finish(LogOp(f, "ERROR: Could not get public IP"),
                                   "ResolveFailure"))
                ELSE SetTop([LogOp(LogOp(f, "Public IP found"),
                                   "Sending DNS update request")
                                EXCEPT !.public_ip = Strip(resp.text),
                                       !.pc = "perform_148"])
    /\ UNCHANGED <<is_running, after_id, interval_var, widget_state, timers,
                   evq, tray, quit>>

\* An updater call that counts every answer as a failure
UpdateFailed_Always(resp) == TRUE

\* The updater call of lines 148-149 fails on an exception of requests.get
\* and on a 4xx or 5xx status
UpdateFailed(resp) == resp.raised \/ raise_for_status(resp)

\* An updater request that carries no address
UpdaterIp_Empty(f) == <<>>

\* Line 145: the 'ip' parameter of the updater request is the local
\* public_ip of this call
UpdaterIp(f) == f.public_ip

\* Lines 147-153: push the update
Perform_148 ==
    /\ stack # <<>>
    /\ Top.pc = "perform_148"
    /\ \E resp \in UpdaterOutcomes :
          LET f == [Top EXCEPT !.updater_calls = @ + 1,
                               !.update_status = resp.status,
                               !.sent_ip = UpdaterIp(Top)]
          IN  stack' =
                IF UpdateFailed(resp)
                THEN SetTop(Finish(LogOp(f, "ERROR: API request failed"),
                                   "UpdateFailure"))
                ELSE SetTop(Finish([LogOp(f, "SUCCESS: Server Response")
                                       EXCEPT !.response_text = Strip(resp.text)],
                                   "Success"))
    /\ UNCHANGED <<is_running, after_id, interval_var, widget_state, timers,
                   evq, tray, quit>>

\* A failure that leaves perform_update as an exception and so ends the
\* whole callback
AfterPerform_Raise(f) ==
    IF f.entry = "perform_update" \/ f.result # "Success"
    THEN Pop
    ELSE SetTop([NewFrame(f.entry, "loop_178")
                    EXCEPT !.result = f.result, !.calls = f.calls])

\* Where perform_update returns to, on every path (lines 132, 141, 151,
\* 153): the main loop when it is the command of the manual button, line 178
\* when auto_update_loop called it. Its locals are gone; the frame keeps the
\* outcome.
AfterPerform(f) ==
    IF f.entry = "perform_update"
    THEN Pop
    ELSE SetTop([NewFrame(f.entry, "loop_178")
                    EXCEPT !.result = f.result, !.calls = f.calls])

\* perform_update returns
Perform_return ==
    /\ stack # <<>>
    /\ Top.pc = "perform_return"
    /\ stack' = AfterPerform(Top)
    /\ UNCHANGED <<is_running, after_id, interval_var, widget_state, timers,
                   evq, tray, quit>>

\* -------------------------------------------------------- auto_update_loop
\* Lines 178-179: compute the interval and test is_running
Loop_178 ==
    /\ stack # <<>>
    /\ Top.pc = "loop_178"
    /\ LET interval_ms == get_interval_ms(interval_var)
       IN  stack' = IF interval_ms > 0 /\ is_running
                    THEN SetTop([Top EXCEPT !.pc = "loop_180",
                                            !.interval_ms = interval_ms])
                    ELSE Pop
    /\ UNCHANGED <<is_running, after_id, interval_var, widget_state, timers,
                   evq, tray, quit>>

\* Timer ids something still refers to: pending timers, after_id, the id a
\* callback is about to store, the argument of a waiting after_cancel
LiveIds ==
    timers \cup {after_id, tray.arg}
        \cup {stack[i].new_id : i \in 1..Len(stack)}

FreeIds == (1..MaxTimerIds) \ LiveIds

\* root.after returns an id it has never returned before: here the least id
\* nothing refers to any more
FreshId == CHOOSE i \in FreeIds : \A j \in FreeIds : i <= j

\* Line 180, the call: root.after(interval_ms, self.auto_update_loop) arms
\* a timer of the duration the frame holds in interval_ms and returns its id
Loop_180 ==
    /\ stack # <<>>
    /\ Top.pc = "loop_180"
    /\ FreeIds # {}
    /\ timers' = timers \cup {FreshId}
    /\ stack' = SetTop([Top EXCEPT !.pc = "loop_180_store", !.new_id = FreshId])
    /\ UNCHANGED <<is_running, after_id, interval_var, widget_state, evq,
                   tray, quit>>

\* Line 180, the assignment: the id is stored in after_id
Loop_180_store ==
    /\ stack # <<>>
    /\ Top.pc = "loop_180_store"
    /\ after_id' = Top.new_id
    /\ stack' = Pop
    /\ UNCHANGED <<is_running, interval_var, widget_state, timers, evq, tray,
                   quit>>

\* ------------------------------------- stop_auto_update on the main thread
\* root.after_cancel(id): the timer with that id, if still pending, is removed
after_cancel(ts, id) == ts \ {id}

\* Line 193
Stop_193 ==
    /\ stack # <<>>
    /\ Top.pc = "stop_193"
    /\ is_running' = FALSE
    /\ stack' = SetTop([Top EXCEPT !.pc = "stop_194"])
    /\ UNCHANGED <<after_id, interval_var, widget_state, timers, evq, tray,
                   quit>>

\* Lines 194-198
Stop_194 ==
    /\ stack # <<>>
    /\ Top.pc = "stop_194"
    /\ IF after_id # None
       THEN /\ timers' = after_cancel(timers, after_id)
            /\ after_id' = None
       ELSE UNCHANGED <<timers, after_id>>
    /\ widget_state' = set_controls_state("stopped")
    /\ stack' = Pop
    /\ UNCHANGED <<is_running, interval_var, evq, tray, quit>>

\* ------------------------------------------------- exit_app, tray thread
\* The user picks Exit in the tray menu: pystray calls exit_app on its thread
TrayExit ==
    /\ tray.pc = "menu"
    /\ tray' = [tray EXCEPT !.pc = "exit_245"]
    /\ UNCHANGED <<is_running, after_id, interval_var, widget_state, timers,
                   evq, stack, quit>>

\* Line 245: if self.is_running: self.stop_auto_update()
Exit_245 ==
    /\ tray.pc = "exit_245"
    /\ tray' = [tray EXCEPT !.pc = IF is_running THEN "stop_193" ELSE "exit_246"]
    /\ UNCHANGED <<is_running, after_id, interval_var, widget_state, timers,
                   evq, stack, quit>>

\* Line 193 on the tray thread
TrayStop_193 ==
    /\ tray.pc = "stop_193"
    /\ is_running' = FALSE
    /\ tray' = [tray EXCEPT !.pc = "stop_194"]
    /\ UNCHANGED <<after_id, interval_var, widget_state, timers, evq, stack,
                   quit>>

\* Line 194 and the argument of line 195: read after_id
TrayStop_194 ==
    /\ tray.pc = "stop_194"
    /\ tray' = IF after_id # None
               THEN [tray EXCEPT !.pc = "stop_195", !.arg = after_id]
               ELSE [tray EXCEPT !.pc = "controls", !.widget = 1]
    /\ UNCHANGED <<is_running, after_id, interval_var, widget_state, timers,
                   evq, stack, quit>>

\* Line 195: the after_cancel call is executed by the main loop
TrayStop_195 ==
    /\ tray.pc = "stop_195"
    /\ CanDispatch(stack)
    /\ timers' = after_cancel(timers, tray.arg)
    /\ tray' = [tray EXCEPT !.pc = "stop_196", !.arg = None]
    /\ UNCHANGED <<is_running, after_id, interval_var, widget_state, evq,
                   stack, quit>>

\* Line 196
TrayStop_196 ==
    /\ tray.pc = "stop_196"
    /\ after_id' = None
    /\ tray' = [tray EXCEPT !.pc = "controls", !.widget = 1]
    /\ UNCHANGED <<is_running, interval_var, widget_state, timers, evq, stack,
                   quit>>

\* Lines 197-198: set_controls_state("stopped"), one config call per widget,
\* each executed by the main loop; the log line of line 198, which changes
\* nothing kept here, goes with the last of them and ends stop_auto_update
TrayStop_197 ==
    /\ tray.pc = "controls"
    /\ CanDispatch(stack)
    /\ LET w == Controls[tray.widget]
       IN  widget_state' = [widget_state EXCEPT ![w] = set_controls_state("stopped")[w]]
    /\ tray' = IF tray.widget < Len(Controls)
               THEN [tray EXCEPT !.widget = @ + 1]
               ELSE [tray EXCEPT !.pc = "exit_246", !.widget = 0,
                                 !.stopped = TRUE]
    /\ UNCHANGED <<is_running, after_id, interval_var, timers, evq, stack,
                   quit>>

\* Lines 246-247: stop the tray icon and make the main loop return;
\* root.quit() is executed by the main loop
Exit_246 ==
    /\ tray.pc = "exit_246"
    /\ CanDispatch(stack)
    /\ quit' = TRUE
    /\ tray' = [tray EXCEPT !.pc = "done"]
    /\ UNCHANGED <<is_running, after_id, interval_var, widget_state, timers,
                   evq, stack>>

\* ------------------------------------------------------------ specification
UserInput ==
    \/ \E b \in Buttons : ClickIdle(b)
    \/ \E b \in Buttons : ClickBusy(b)
    \/ SelectInterval
    \/ TrayExit

MainThread ==
    \/ DispatchClick
    \/ TimerFire
    \/ Start_183
    \/ Start_184
    \/ Start_187
    \/ Perform_126
    \/ Perform_137
    \/ Perform_148
    \/ Perform_return
    \/ Loop_178
    \/ Loop_180
    \/ Loop_180_store
    \/ Stop_193
    \/ Stop_194

TrayThread ==
    \/ Exit_245
    \/ TrayStop_193
    \/ TrayStop_194
    \/ TrayStop_195
    \/ TrayStop_196
    \/ TrayStop_197
    \/ Exit_246

Next == UserInput \/ MainThread \/ TrayThread

Spec == Init /\ [][Next]_vars

\* ------------------------------------------- perform_update, called in a row
\* perform_update is called, as the command of the manual button, when no
\* call is running; the records of the calls that returned are kept
Execute_call ==
    /\ IF stack = <<>> THEN TRUE ELSE Top.pc = "returned"
    /\ Len(stack) < MaxRuns
    /\ stack' = Append(stack, NewFrame("perform_update",
                                       EntryPc("perform_update")))
    /\ UNCHANGED <<is_running, after_id, interval_var, widget_state, timers,
                   evq, tray, quit>>

\* perform_update returns to its caller
Execute_return ==
    /\ stack # <<>>
    /\ Top.pc = "perform_return"
    /\ stack' = SetTop([Top EXCEPT !.pc = "returned"])
    /\ UNCHANGED <<is_running, after_id, interval_var, widget_state, timers,
                   evq, tray, quit>>

NextExecute ==
    \/ Execute_call
    \/ Perform_126
    \/ Perform_137
    \/ Perform_148
    \/ Execute_return

SpecExecute == Init /\ [][NextExecute]_vars

\* ------------------------------------------ the scheduler that is not stopped
\* The Stop button is never pressed and Exit of the tray menu is never
\* chosen, so stop_auto_update is never called.
PressedButtons == Buttons \ {"stop_button"}

\* A step of the callback the main thread is executing: every statement
\* of a callback terminates, the network calls included (each returns a
\* response or raises, at the latest at its timeout of 10 or 15 seconds)
Callback ==
    \/ Start_183
    \/ Start_184
    \/ Start_187
    \/ Perform_126
    \/ Perform_137
    \/ Perform_148
    \/ Perform_return
    \/ Loop_178
    \/ Loop_180
    \/ Loop_180_store

NextLive ==
    \/ \E b \in PressedButtons : ClickIdle(b)
    \/ \E b \in PressedButtons : ClickBusy(b)
    \/ SelectInterval
    \/ DispatchClick
    \/ TimerFire
    \/ Callback

\* The callback in execution goes on, and the idle main loop calls the
\* callback of a timer that has expired.
SpecLive ==
    /\ Init
    /\ [][NextLive]_vars
    /\ WF_vars(Callback)
    /\ WF_vars(TimerFire)

\* ------------------------------------------------------------------- types
\* The states of Spec and SpecLive: the main thread executes at most one
\* callback at a time. (SpecExecute keeps the frames of returned calls, up
\* to MaxRuns of them.)
TypeOK ==
    /\ is_running \in BOOLEAN
    /\ after_id \in 0..MaxTimerIds
    /\ interval_var \in IntervalValues \cup {""}
    /\ timers \subseteq 1..MaxTimerIds
    /\ Len(evq) <= MaxQueue
    /\ Len(stack) <= 1
    /\ quit \in BOOLEAN

\* ------------------------------------------------- vocabulary of the claims
\* At least one of the three credential fields is empty
HasEmptyField(c) == \E k \in DOMAIN c : c[k] = ""

\* Every frame of the main thread
Frames == {stack[i] : i \in 1..Len(stack)}

\* Frames inside perform_update that have read the credential entries
Operations == {f \in Frames : f.pc \in PerformPcs \ {"perform_126"}}

\* The main thread takes a step of the callback it is executing, at pc
MainStepAt(pc) ==
    /\ stack # <<>>
    /\ Top.pc = pc
    /\ stack' # stack

\* The main loop enters the callback cmd
Enters(cmd) ==
    /\ Len(stack') > Len(stack)
    /\ Top'.entry = cmd

\* The callback on top of the stack returns to the main loop
Returns == stack # <<>> /\ stack' = Pop

\* The main loop handles a queued click on button b
HandlesQueued(b) == evq # <<>> /\ Head(evq) = b /\ evq' = Tail(evq)

\* The resolver call of this operation raised (connection error, timeout)
ResolverRaised(f) == f.resolver_calls = 1 /\ f.resolve_status = 0

Failures == {"MissingCredentials", "ResolveFailure", "UpdateFailure"}

\* The tray thread is inside stop_auto_update
TrayStopInProgress == tray.pc \in {"stop_194", "stop_195", "stop_196", "controls"}

\* The updater call of this operation failed: it raised (connection error,
\* timeout) or answered with a 4xx or 5xx status
UpdaterFailed(f) == f.updater_calls = 1 /\ f.update_status \notin 200..299

\* The addresses the IP endpoint can report: its bodies without the
\* surrounding whitespace
ResolvedIps == {<<"7">>}

\* The log line of each failing outcome, which names the failing step
FailureLine(result) ==
    CASE result = "MissingCredentials" -> "ERROR: fields are required"
      [] result = "ResolveFailure"     -> "ERROR: Could not get public IP"
      [] result = "UpdateFailure"      -> "ERROR: API request failed"

FailureLines == {FailureLine(r) : r \in Failures}

\* The main thread takes a step of a callback that Tk entered as cmd
CallbackStep(cmd) ==
    /\ stack # <<>>
    /\ Top.entry = cmd
    /\ stack' # stack

\* The tray thread executes line 193 of the stop_auto_update it called
TrayStopStep == tray.pc = "stop_193" /\ tray' # tray

\* A call of perform_update that has reached a return
Ended(f) == f.pc \in {"perform_return", "returned"}

\* The IP endpoint answered this call with status 200 and the address ip
ResolvedTo(f, ip) ==
    /\ f.resolver_calls = 1
    /\ f.resolve_status = 200
    /\ f.public_ip = ip

\* The duration, in seconds, the specification gives each interval
ClaimedSeconds(v) ==
    CASE v = "60 minutes" -> 3600
      [] v = "4 hours"    -> 14400
      [] v = "6 hours"    -> 21600
      [] v = "24 hours"   -> 86400
      [] OTHER            -> 0

\* Frames at line 180: root.after is being called, or has just returned
Arming == {f \in Frames : f.pc \in {"loop_180", "loop_180_store"}}

\* stop_auto_update is being executed, by the main thread or the tray thread
StopInProgress ==
    \/ TrayStopInProgress
    \/ \E f \in Frames : f.entry = "stop_auto_update"

\* The main loop calls auto_update_loop for a timer that expired
TimerFires ==
    /\ stack = <<>>
    /\ Len(stack') = 1
    /\ Top'.entry = "auto_update_loop"
    /\ timers' # timers

\* Callbacks of timers, in execution
TimerCallbacks == {f \in Frames : f.entry = "auto_update_loop"}

\* ------------------------------------------------------------------ claims

\* C1: in every reachable state at most one Update Operation (a call of
\* perform_update, whatever triggered it) is in flight.
C1_AtMostOneInFlight == InFlight(stack) <= 1

\* C1 witness: an operation is in flight, a manual trigger for another one
\* has arrived meanwhile and a timer is pending.
C1_Witness ==
    /\ InFlight(stack) = 1
    /\ evq # <<>>
    /\ Head(evq) = "manual_button"
    /\ timers # {}

\* C2, as claimed: a manual trigger that arrived while an Update Operation
\* was in flight is dropped: when the main loop comes to it, no callback is
\* entered.
C2_OverlappingTriggerDropped ==
    [][HandlesQueued("manual_button") => stack' = stack]_vars

\* C3: a Start from Idle whose interval is not one of the enumerated values
\* takes the rejection path of line 184 and returns: the state stays Idle,
\* no Update Operation is performed and no timer is armed.
C3_InvalidIntervalRejected ==
    [][/\ (/\ MainStepAt("start_183")
           /\ ~is_running
           /\ interval_var \notin IntervalValues)
            => /\ Top'.pc = "start_184"
               /\ Top'.calls = 0
               /\ ~is_running'
               /\ UNCHANGED <<timers, after_id>>
       /\ MainStepAt("start_184")
            => /\ Returns
               /\ Top.calls = 0
               /\ ~is_running'
               /\ timers' = {}
               /\ UNCHANGED <<timers, after_id>>]_vars

\* C3 witness: a Start is being rejected for its interval, with the
\* scheduler Idle and no timer.
C3_Witness ==
    /\ stack # <<>>
    /\ Top.pc = "start_184"
    /\ Top.calls = 0
    /\ interval_var \notin IntervalValues
    /\ ~is_running
    /\ timers = {}

\* C4, as claimed: a Start that reaches line 183 while the scheduler is
\* Running is rejected: it returns, or takes the rejection path, with the
\* state, the timers and the controls unchanged.
C4_StartWhileRunningNoOp ==
    [][(MainStepAt("start_183") /\ is_running)
        => /\ Returns \/ Top'.pc = "start_184"
           /\ UNCHANGED <<is_running, after_id, timers, widget_state>>]_vars

\* C5, as claimed: Start from Idle with an enumerated interval sets
\* is_running and performs exactly one operation; when it returns with the
\* scheduler still Running, exactly one timer is armed, for the mapped
\* interval; the Stop button then leaves the state Idle with no timer; and
\* with no Stop in progress no timer callback is entered while Idle.
C5_StartThenStop ==
    [][/\ (/\ MainStepAt("start_183")
           /\ ~is_running
           /\ interval_var \in IntervalValues)
            => (is_running' /\ Top'.pc = "start_187")
       /\ (/\ Returns
           /\ Top.entry = "start_auto_update"
           /\ Top.pc # "start_184")
            => /\ Top.calls = 1
               /\ is_running'
                    => /\ timers' = {after_id'}
                       /\ Top.interval_ms = interval_map[interval_var]
       /\ MainStepAt("stop_194")
            => (~is_running' /\ timers' = {} /\ after_id' = None)
       /\ (Enters("auto_update_loop") /\ ~TrayStopInProgress)
            => is_running]_vars

\* C6, as claimed: once a Stop of the tray thread has completed and the
\* state is Idle, no timer is armed, however the Stop interleaved with the
\* running-check and the re-arm of auto_update_loop.
C6_NoTimerAfterStop == (tray.stopped /\ ~is_running) => timers = {}

\* C7: a failed Update Operation of a Running scheduler leaves is_running
\* alone and returns normally to auto_update_loop, which re-arms the timer
\* for the configured interval exactly as after a success.
C7_FailureKeepsSchedule ==
    [][/\ (\E pc \in PerformPcs : MainStepAt(pc)) => is_running' = is_running
       /\ (/\ MainStepAt("perform_return")
           /\ Top.entry # "perform_update"
           /\ Top.result \in Failures)
            => /\ Len(stack') = Len(stack)
               /\ Top'.pc = "loop_178"
               /\ Top'.result = Top.result
       /\ (/\ MainStepAt("loop_178")
           /\ Top.result \in Failures
           /\ is_running)
            => /\ Len(stack') = Len(stack)
               /\ Top'.pc = "loop_180"
               /\ Top'.interval_ms = interval_map[interval_var]
       /\ (MainStepAt("loop_180") /\ Top.result \in Failures)
            => /\ Top.interval_ms = interval_map[interval_var]
               /\ timers' = timers \cup {FreshId}]_vars

\* C7 witness: a timer-driven operation failed while Running and the timer
\* was armed again for the configured interval.
C7_Witness ==
    \E f \in Frames :
        /\ f.entry = "auto_update_loop"
        /\ f.pc = "loop_180_store"
        /\ f.result \in Failures
        /\ is_running
        /\ f.interval_ms = interval_map[interval_var]
        /\ f.new_id \in timers

\* C8: with at least one empty credential field, perform_update ends as
\* MissingCredentials and has called neither the resolver nor the updater.
C8_MissingCredentialsNoNetwork ==
    \A f \in Operations :
        HasEmptyField(f.creds)
            => /\ f.pc = "perform_return"
               /\ f.result = "MissingCredentials"
               /\ f.resolver_calls = 0
               /\ f.updater_calls = 0

\* C8 witness: an operation returned MissingCredentials with exactly one
\* field empty.
C8_Witness ==
    \E f \in Operations :
        /\ f.pc = "perform_return"
        /\ f.result = "MissingCredentials"
        /\ f.creds = [record_id |-> "x", email |-> "x", api_key |-> ""]

\* C9: with complete credentials, a resolver call that fails ends the
\* operation as ResolveFailure with no updater call, and the updater is
\* only ever called after a resolver call of the same operation succeeded.
C9_ResolveFailureSkipsUpdater ==
    \A f \in Operations :
        /\ ResolverRaised(f) => /\ f.pc = "perform_return"
                                /\ f.result = "ResolveFailure"
                                /\ f.updater_calls = 0
        /\ f.updater_calls > 0 => /\ f.resolver_calls = 1
                                  /\ ~ResolverRaised(f)
        /\ f.pc = "perform_148" => f.resolver_calls = 1 /\ ~ResolverRaised(f)

\* C9 witness: an operation with complete credentials ended as
\* ResolveFailure.
C9_Witness ==
    \E f \in Operations :
        /\ f.pc = "perform_return"
        /\ f.result = "ResolveFailure"
        /\ ~HasEmptyField(f.creds)
        /\ ResolverRaised(f)

\* C10, as claimed: a non-2xx answer of the IP endpoint ends the operation
\* as ResolveFailure and its body never reaches the updater.
C10_Non2xxIsResolveFailure ==
    \A f \in Operations :
        (f.resolver_calls = 1 /\ f.resolve_status \notin 200..299)
            => /\ f.pc = "perform_return"
               /\ f.result = "ResolveFailure"
               /\ f.updater_calls = 0

\* C11: with complete credentials and a resolved IP, an updater call that
\* fails (exception or 4xx/5xx status) ends the operation as UpdateFailure,
\* and the address of the failed request is exactly the IP resolved in the
\* same operation.
C11_UpdateFailureCarriesResolvedIp ==
    \A f \in Operations :
        /\ (~HasEmptyField(f.creds) /\ UpdaterFailed(f))
            => /\ f.pc = "perform_return"
               /\ f.result = "UpdateFailure"
               /\ f.resolver_calls = 1
               /\ f.sent_ip = f.public_ip
               /\ f.resolve_status = 200 => f.sent_ip \in ResolvedIps
        /\ f.result = "UpdateFailure" => UpdaterFailed(f)

\* C11 witness: one operation resolved the IP and its updater call was
\* answered with status 500.
C11_Witness ==
    \E f \in Operations :
        /\ f.result = "UpdateFailure"
        /\ f.resolve_status = 200
        /\ f.update_status = 500
        /\ f.sent_ip = <<"7">>

\* C12, as claimed: a successful operation has sent the resolved IP in its
\* one updater call and has appended exactly two log lines.
C12_SuccessLogsTwoLines ==
    \A f \in Operations :
        f.result = "Success"
            => /\ f.sent_ip = f.public_ip
               /\ f.updater_calls = 1
               /\ Len(f.op_log) = 2

\* C13: every operation that ends as MissingCredentials, ResolveFailure or
\* UpdateFailure has appended exactly one failure line, the one of its
\* failing step, as its last log line; none ends without a log line.
C13_FailureLogsOneLine ==
    \A f \in Operations :
        f.result \in Failures
            => /\ f.op_log # <<>>
               /\ f.op_log[Len(f.op_log)] = FailureLine(f.result)
               /\ Cardinality({i \in 1..Len(f.op_log) :
                                  f.op_log[i] \in FailureLines}) = 1

\* C13 witness: an operation failed at the update step, after the three
\* lines of the steps before it.
C13_Witness ==
    \E f \in Operations :
        /\ f.result = "UpdateFailure"
        /\ Len(f.op_log) = 4
        /\ f.op_log[4] = "ERROR: API request failed"

\* C14: is_running changes only at line 186 of Start and line 193 of Stop;
\* a manual operation, from the click to its return and whatever its
\* outcome, leaves is_running, the pending timers and after_id unchanged;
\* a timer callback leaves is_running unchanged.
C14_StateChangesOnlyInStartStop ==
    [][/\ is_running' # is_running
            => \/ MainStepAt("start_183")
               \/ MainStepAt("stop_193")
               \/ TrayStopStep
       /\ (Enters("perform_update") \/ CallbackStep("perform_update"))
            => UNCHANGED <<is_running, timers, after_id>>
       /\ (Enters("auto_update_loop") \/ CallbackStep("auto_update_loop"))
            => is_running' = is_running]_vars

\* C14 witness: a manual operation returns while the scheduler is Running
\* with its timer pending.
C14_Witness ==
    \E f \in Operations :
        /\ f.entry = "perform_update"
        /\ f.pc = "perform_return"
        /\ is_running
        /\ timers = {after_id}

\* C15, as claimed: while the network calls of an Update Operation are in
\* flight, the thread that owns the timer and the state is not blocked: a
\* click that is waiting can be handled before the operation returns.
C15_OwnerNotBlocked ==
    (/\ stack # <<>>
     /\ Top.pc \in {"perform_137", "perform_148"}
     /\ evq # <<>>
     /\ ~quit)
        => ENABLED DispatchClick

\* C16: of two calls of perform_update in immediate succession, with
\* complete credentials and the same resolved IP, each calls the updater
\* once, and each ends as Success unless its own updater call failed: the
\* outcome of the first changes nothing for the second.
C16_NoIpChangeCache ==
    \A i \in 1..(Len(stack) - 1) :
        LET f == stack[i]
            g == stack[i + 1]
        IN  (/\ Ended(f) /\ Ended(g)
             /\ ~HasEmptyField(f.creds) /\ ~HasEmptyField(g.creds)
             /\ \E ip \in ResolvedIps : ResolvedTo(f, ip) /\ ResolvedTo(g, ip))
                => /\ f.updater_calls = 1
                   /\ g.updater_calls = 1
                   /\ ~UpdaterFailed(f) => f.result = "Success"
                   /\ ~UpdaterFailed(g) => g.result = "Success"

\* C16 witness: two calls in succession resolved the same IP and both ended
\* as Success, with one updater call each.
C16_Witness ==
    /\ Len(stack) = 2
    /\ \A i \in 1..2 :
          /\ stack[i].pc = "returned"
          /\ stack[i].result = "Success"
          /\ stack[i].sent_ip = <<"7">>
          /\ stack[i].updater_calls = 1

\* C17: whenever root.after arms a timer, the duration it is given is the
\* one mapped from the configured interval, in milliseconds; it is never
\* zero and never one of no listed interval.
C17_TimerDurationIsMapped ==
    \A f \in Arming :
        /\ interval_var \in IntervalValues
        /\ f.interval_ms = 1000 * ClaimedSeconds(interval_var)
        /\ f.interval_ms > 0

\* C17 witness: a timer has just been armed for "4 hours", 14400 s.
C17_Witness ==
    \E f \in Arming :
        /\ f.pc = "loop_180_store"
        /\ interval_var = "4 hours"
        /\ f.interval_ms = 14400000
        /\ f.new_id \in timers

\* C18: when stop_auto_update is never called and every step of a
\* callback terminates, each timer firing enters perform_update, makes
\* exactly one call of it and then arms a new timer; and whenever the
\* scheduler is running, a timer firing starts an Update Operation later
\* on, so that Update Operations occur infinitely often.
C18_TimerKeepsUpdating ==
    /\ [][/\ TimerFires => /\ Top'.pc = "perform_126"
                           /\ Top'.calls = 0
                           /\ is_running
          /\ (MainStepAt("perform_return") /\ Top \in TimerCallbacks)
                => /\ Top.calls = 1
                   /\ Top'.pc = "loop_178"
                   /\ Top'.calls = 1
          /\ (MainStepAt("loop_178") /\ Top \in TimerCallbacks)
                => /\ Top.calls = 1
                   /\ Top'.pc = "loop_180"
          /\ (MainStepAt("loop_180") /\ Top \in TimerCallbacks)
                => /\ Top.calls = 1
                   /\ Cardinality(timers') = Cardinality(timers) + 1
                   /\ Top'.new_id \in timers'
         ]_vars
    /\ [](is_running => <>(\E f \in TimerCallbacks :
                              f.pc = "perform_return" /\ f.calls = 1))

\* C18 witness: the callback of a timer has made its one call of
\* perform_update, which ran to the updater, and has armed the next timer.
C18_Witness ==
    \E f \in TimerCallbacks :
        /\ f.pc = "loop_180_store"
        /\ f.calls = 1
        /\ f.result = "Success"
        /\ f.new_id \in timers
        /\ after_id # f.new_id

\* C19, as claimed: at most one timer is pending; when the scheduler is
\* not running and no stop_auto_update is being executed, none is; and
\* between callbacks a pending timer is the one after_id refers to, so
\* that a Stop cancels it.
C19_OnePendingTimerOwned ==
    /\ Cardinality(timers) <= 1
    /\ (~is_running /\ ~StopInProgress) => timers = {}
    /\ stack = <<>> => timers \subseteq {after_id}

====
